---- MODULE Spec2Model ----
(***************************************************************************)
(* AIdentify: the API of backend_api.py (/analyze/upload, /analyze/url)    *)
(* in front of the local detector of detector_server.py (/analyze/image,   *)
(* /analyze/video).                                                        *)
(*                                                                         *)
(* Text is a sequence of atoms: a literal piece of text is one atom, and   *)
(* every character of a downloader error message is one atom, so that the  *)
(* two str.replace calls of analyze_url act on characters.  Numbers that   *)
(* the program keeps as floats are integers in the unit they are printed   *)
(* in: ELA and HighFreq in hundredths, Laplacian in tenths, scores and     *)
(* confidences in hundredths.                                              *)
(***************************************************************************)
EXTENDS Integers, Sequences, FiniteSets, TLC

VARIABLES
    pc,         \* per request: the handler's position
    route,      \* per request: "none", "upload" or "url"
    url,        \* per request: the form field url of /analyze/url
    disk,       \* the files and directories on disk (backend and detector)
    evidence,   \* per request: evidence (upload) or res["evidence"] (url)
    cur,        \* per request: the path d / path handed to post_to_detector
    last_err,   \* per request: last_err of ytdlp_download
    out,        \* per request: what the client got (response or error)
    calls,      \* per request: history of the external calls it made
    raised,     \* per request: history of the exceptions extract_info raised
    sniffs,     \* per request: history of sniff_media_type results
    detres,     \* per request: what post_to_detector last returned or raised
    direct,     \* per request: what try_direct_get was answered and returned
    thrown,     \* per request: the exception ytdlp_download raised to its caller
    tries,      \* per request: history of the rounds of ytdlp_download
    face,       \* the detector's global _FACE: "None" or "Classifier"
    haar,       \* whether the cascade file exists: "unknown" until first looked at
    arg,        \* the input a function of the detector is applied to
    ret         \* what the function returned for arg

vars == <<pc, route, url, disk, evidence, cur, last_err, out, calls, raised,
          sniffs, detres, direct, thrown, tries, face, haar, arg, ret>>

-----------------------------------------------------------------------------
(* Bounds *)

\* pieces an error message of the downloader is made of
MaxChunks == 2
\* frames a video container announces (CAP_PROP_FRAME_COUNT)
MaxTotal == 2
\* the same, where the detector's functions are applied on their own
MaxFrameCount == 17

\* N of sample_frames(path, n=8)
NFrames == 8

\* request identities, and the requests that are served
Reqs == {1, 2}
Served == {1}

-----------------------------------------------------------------------------
(* Text *)

ESC == "ESC"

\* "\u001b[0;31m"
AnsiRed == <<ESC, "[", "0", ";", "3", "1", "m">>
\* "\u001b[0m"
AnsiReset == <<ESC, "[", "0", "m">>
\* "\u001b[0;33m", the colour yt-dlp prints warnings in
AnsiYellow == <<ESC, "[", "0", ";", "3", "3", "m">>

Chunks == {AnsiRed, AnsiReset, AnsiYellow, <<"E">>}

RECURSIVE MsgsOf(_)
MsgsOf(n) ==
    IF n = 0 THEN {<<>>}
    ELSE LET shorter == MsgsOf(n - 1)
         IN  shorter \cup {m \o c : m \in shorter, c \in Chunks}

\* the messages str(e) of the exceptions the downloader raises
Msgs == MsgsOf(MaxChunks)

StartsWith(s, p) ==
    /\ Len(s) >= Len(p)
    /\ SubSeq(s, 1, Len(p)) = p

\* str.replace(p, ""): every non-overlapping occurrence, leftmost first
RECURSIVE Remove(_, _)
Remove(s, p) ==
    IF s = <<>> THEN <<>>
    ELSE IF StartsWith(s, p) THEN Remove(SubSeq(s, Len(p) + 1, Len(s)), p)
    ELSE <<Head(s)>> \o Remove(Tail(s), p)

\* str(e).replace("\u001b[0;31m","").replace("\u001b[0m","")
Sanitize(msg) == Remove(Remove(msg, AnsiRed), AnsiReset)

Ev(label, value) == [label |-> label, value |-> value]

Digits == <<"0", "1", "2", "3", "4", "5", "6", "7", "8", "9">>

\* f"{x:.2f}" of x = v/100 and f"{x:.1f}" of x = v/10, for v >= 0
Fmt2(v) ==
    <<ToString(v \div 100) \o "." \o Digits[((v % 100) \div 10) + 1]
        \o Digits[(v % 10) + 1]>>
Fmt1(v) == <<ToString(v \div 10) \o "." \o Digits[(v % 10) + 1]>>
FmtInt(v) == <<ToString(v)>>

-----------------------------------------------------------------------------
(* Files *)

\* what a file holds: a decodable image, a video container with at least one
\* frame, or bytes that are neither; size is 0 (empty) or 1 (non-empty)
Bodies ==
    { [content |-> "image", size |-> 1], [content |-> "video", size |-> 1],
      [content |-> "garbage", size |-> 1], [content |-> "garbage", size |-> 0] }

NoPath == [where |-> "none", name |-> "", ext |-> ""]
MediaBin == [where |-> "workdir", name |-> "media", ext |-> "bin"]
UploadTmp == [where |-> "tmp", name |-> "upload", ext |-> ""]
DetectorTmp == [where |-> "detector", name |-> "tmp", ext |-> "mp4"]
WorkDir == [where |-> "workdir", name |-> "", ext |-> ""]
Downloaded(ext) == [where |-> "workdir", name |-> "id", ext |-> ext]

FileAt(r, path, body) ==
    [owner |-> r, where |-> path.where, name |-> path.name, ext |-> path.ext,
     content |-> body.content, size |-> body.size]

PathOf(f) == [where |-> f.where, name |-> f.name, ext |-> f.ext]

\* os.path.exists
Exists(d, r, path) == \E f \in d : f.owner = r /\ PathOf(f) = path

Lookup(d, r, path) == CHOOSE f \in d : f.owner = r /\ PathOf(f) = path

\* open(path, "wb") and write: the file replaces what was at that path
WriteFile(d, r, path, body) ==
    {f \in d : ~(f.owner = r /\ PathOf(f) = path)} \cup {FileAt(r, path, body)}

\* os.remove
RemoveFile(d, r, path) == {f \in d : ~(f.owner = r /\ PathOf(f) = path)}

\* shutil.rmtree(workdir, ignore_errors=True)
\* every working directory removed, whoever made it
RmTree_Shared(d, r) == {f \in d : f.where # "workdir"}

RmTree(d, r) == {f \in d : ~(f.owner = r /\ f.where = "workdir")}

\* mimetypes.guess_type(path), reduced to what sniff_media_type asks of it
MimeKind(ext) ==
    CASE ext \in {"mp4", "webm", "mkv"} -> "video"
      [] ext \in {"jpg"} -> "image"
      [] OTHER -> "other"

sniff_media_type(f) ==
    IF MimeKind(f.ext) = "image" THEN "image"
    ELSE IF MimeKind(f.ext) = "video" THEN "video"
    ELSE IF f.content = "image" THEN "image"
    ELSE IF f.content = "video" THEN "video"
    ELSE "unknown"

-----------------------------------------------------------------------------
(* Detector: fusion (detector_server.py) *)

\* a float score: c hundredths, and e the sign of the difference between the
\* double the additions produced and the double nearest to c/100
Score(c, e) == [c |-> c, e |-> e]

BaseScore == 50
CutAI == 70
CutReal == 30

\* every rule taking its increment away from the score
FAdd_Subtracts(s, inc) == Score(s.c - inc, 0)

\* score += inc in IEEE double arithmetic, for the sums the two fusion rules
\* can form: 0.7 + 0.1 is 0.7999999999999999 and 0.65 + 0.05 is
\* 0.7000000000000001; every other sum is the double nearest to its decimal
FAdd(s, inc) ==
    Score(s.c + inc,
          IF s.c = 70 /\ s.e = 0 /\ inc = 10 THEN -1
          ELSE IF s.c = 65 /\ s.e = 0 /\ inc = 5 THEN 1
          ELSE 0)

\* max(0.0, min(1.0, score))
Clamp(s) ==
    IF s.c > 100 THEN Score(100, 0)
    ELSE IF s.c < 0 THEN Score(0, 0)
    ELSE s

\* score > 0.7, score < 0.3
Above(s, cut) == s.c > cut \/ (s.c = cut /\ s.e > 0)
Below(s, cut) == s.c < cut \/ (s.c = cut /\ s.e < 0)

Verdict(s) ==
    IF Above(s, CutAI) THEN "likelyAI"
    ELSE IF Below(s, CutReal) THEN "likelyReal"
    ELSE "inconclusive"

\* round(abs(score - 0.5) * 2, 2), in hundredths
Confidence(s) == (IF s.c >= BaseScore THEN s.c - BaseScore ELSE BaseScore - s.c) * 2

Result(verdict, confidence, ev) ==
    [verdict |-> verdict, confidence |-> confidence, evidence |-> ev]

ErrorItem == Ev("Error", <<"exception">>)

ElaHigh == 60
ElaMid == 40
LapImage == 400
HfImage == 12

\* the signals of an image: ela and hf in hundredths, lap in tenths; fail names
\* the extractor that raises, or is "none"
ImageSignals ==
    [ela : {39, 40, 59, 60}, lap : {399, 400}, hf : {11, 12},
     fail : {"none", "ela", "lap", "hf"}]

\* the upper ELA rule firing only strictly above its cutoff
ImageScore_StrictEla(sig) ==
    LET s0 == Score(BaseScore, 0)
        s1 == IF sig.ela > ElaHigh THEN FAdd(s0, 20)
              ELSE IF sig.ela >= ElaMid THEN FAdd(s0, 10)
              ELSE s0
        s2 == IF sig.lap < LapImage THEN FAdd(s1, 10) ELSE s1
        s3 == IF sig.hf < HfImage THEN FAdd(s2, 5) ELSE s2
    IN  Clamp(s3)

ImageScore(sig) ==
    LET s0 == Score(BaseScore, 0)
        s1 == IF sig.ela >= ElaHigh THEN FAdd(s0, 20)
              ELSE IF sig.ela >= ElaMid THEN FAdd(s0, 10)
              ELSE s0
        s2 == IF sig.lap < LapImage THEN FAdd(s1, 10) ELSE s1
        s3 == IF sig.hf < HfImage THEN FAdd(s2, 5) ELSE s2
    IN  Clamp(s3)

\* the except branch returning evidence without the Error item
analyze_image_pil_NoErrorItem(sig) ==
    IF sig.fail # "none"
    THEN Result("inconclusive", 0, <<>>)
    ELSE LET ev == << Ev("ELA", Fmt2(sig.ela)),
                      Ev("Laplacian", Fmt1(sig.lap)),
                      Ev("HighFreq", Fmt2(sig.hf)) >>
             score == ImageScore(sig)
         IN  Result(Verdict(score), Confidence(score), ev)

\* the except branch returning the items appended so far, without the Error item
analyze_image_pil_KeepsPartial(sig) ==
    IF sig.fail = "ela" THEN Result("inconclusive", 0, <<>>)
    ELSE IF sig.fail = "lap"
    THEN Result("inconclusive", 0, <<Ev("ELA", Fmt2(sig.ela))>>)
    ELSE IF sig.fail = "hf"
    THEN Result("inconclusive", 0, <<Ev("ELA", Fmt2(sig.ela)), Ev("Laplacian", Fmt1(sig.lap))>>)
    ELSE LET ev == << Ev("ELA", Fmt2(sig.ela)),
                      Ev("Laplacian", Fmt1(sig.lap)),
                      Ev("HighFreq", Fmt2(sig.hf)) >>
             score == ImageScore(sig)
         IN  Result(Verdict(score), Confidence(score), ev)

analyze_image_pil(sig) ==
    IF sig.fail # "none"
    THEN Result("inconclusive", 0, <<ErrorItem>>)
    ELSE LET ev == << Ev("ELA", Fmt2(sig.ela)),
                      Ev("Laplacian", Fmt1(sig.lap)),
                      Ev("HighFreq", Fmt2(sig.hf)) >>
             score == ImageScore(sig)
         IN  Result(Verdict(score), Confidence(score), ev)

-----------------------------------------------------------------------------
(* Detector: video (detector_server.py) *)

LapVideo == 600
HfVideo == 14

\* the step rounded up instead of down
Step_RoundsUp(total, n) ==
    IF (total + n - 1) \div n > 1 THEN (total + n - 1) \div n ELSE 1

\* max(1, total // n or 1)
Step(total, n) ==
    LET q == total \div n
        q1 == IF q = 0 THEN 1 ELSE q
    IN  IF q1 > 1 THEN q1 ELSE 1

\* the loop of sample_frames from index i on: frame i is read successfully
\* iff i < bad; the result is the sequence of the indices of the frames kept
RECURSIVE Visit(_, _, _, _, _)
Visit(i, frames, total, bad, n) ==
    IF i >= total THEN frames
    ELSE IF i >= bad THEN frames
    ELSE LET kept == Append(frames, i)
         IN  IF Len(kept) >= n THEN kept
             ELSE Visit(i + Step(total, n), kept, total, bad, n)

sample_frames(total, bad, n) == Visit(0, <<>>, total, bad, n)

Profiles == {"flat", "sharp", "mixed"}
AllProfiles == Profiles \cup {"blurry", "smooth", "soft"}

\* laplacian_var_safe (tenths), highfreq_mean_safe (hundredths) and
\* count_faces of frame i of a video of the given profile
FrameSignals(profile, i) ==
    CASE profile = "flat" -> [lap |-> 0, hf |-> 0, faces |-> 0]
      [] profile = "sharp" -> [lap |-> 600, hf |-> 14, faces |-> 1]
      [] profile = "blurry" -> [lap |-> 599, hf |-> 14, faces |-> 1]
      [] profile = "smooth" -> [lap |-> 600, hf |-> 13, faces |-> 0]
      [] profile = "soft" -> [lap |-> 599, hf |-> 14, faces |-> 0]
      [] OTHER -> IF i % 2 = 0 THEN [lap |-> 598, hf |-> 12, faces |-> 0]
                  ELSE [lap |-> 602, hf |-> 16, faces |-> 1]

RECURSIVE SumSeq(_)
SumSeq(q) == IF q = <<>> THEN 0 ELSE Head(q) + SumSeq(Tail(q))

\* the nearest integer to a / b (b > 0), the value a mean is printed as
RoundDiv(a, b) == (2 * a + b) \div (2 * b)

\* the videos the detector may be given: total is CAP_PROP_FRAME_COUNT (0 when
\* the container cannot be opened), bad the first frame whose read fails,
\* fail whether a signal extractor raises
\* xml: whether haarcascade_frontalface_default.xml exists, which does not
\* change once it has been looked at
XmlOptions == IF haar = "unknown" THEN {"present", "absent"} ELSE {haar}

VideosOf(content) ==
    [total : IF content = "video" THEN 1..MaxTotal ELSE {0},
     bad : 0..MaxTotal, profile : Profiles, fail : BOOLEAN, xml : XmlOptions]

\* an extractor can raise only on a frame: with frames sampled, v.fail makes
\* laplacian_var_safe raise on the first of them
Fails(v) == v.fail /\ sample_frames(v.total, v.bad, NFrames) # <<>>

\* count_faces runs, and finds _FACE unset: _face_detector looks for the file
LooksForCascade(v) ==
    /\ ~Fails(v)
    /\ sample_frames(v.total, v.bad, NFrames) # <<>>
    /\ face = "None"

\* _face_detector(): _FACE, set on first use to the classifier if the file exists
face_detector(v) ==
    IF face # "None" THEN face
    ELSE IF v.xml = "present" THEN "Classifier" ELSE "None"

\* count_faces(fr) for frame i
count_faces(v, i) ==
    IF face_detector(v) = "None" THEN 0 ELSE FrameSignals(v.profile, i).faces

\* the face rule never firing
VideoScore_NoFaceRule(lapSum, hfSum, n, faces) ==
    LET s0 == Score(BaseScore, 0)
        s1 == IF (n = 0 \/ lapSum < LapVideo * n) THEN FAdd(s0, 15) ELSE s0
        s2 == IF (n = 0 \/ hfSum < HfVideo * n) THEN FAdd(s1, 10) ELSE s1
    IN  Clamp(s2)

VideoScore(lapSum, hfSum, n, faces) ==
    LET s0 == Score(BaseScore, 0)
        \* lap_avg < 60, with lap_avg = 0.0 for no frames
        s1 == IF (n = 0 \/ lapSum < LapVideo * n) THEN FAdd(s0, 15) ELSE s0
        s2 == IF (n = 0 \/ hfSum < HfVideo * n) THEN FAdd(s1, 10) ELSE s1
        s3 == IF faces = 0 THEN FAdd(s2, 5) ELSE s2
    IN  Clamp(s3)

\* laps, hfs and faces after the loop over the sampled frames
VideoSignals(v) ==
    LET frames == sample_frames(v.total, v.bad, NFrames)
        n == Len(frames)
    IN  [n |-> n,
         lapSum |-> SumSeq([k \in 1..n |-> FrameSignals(v.profile, frames[k]).lap]),
         hfSum |-> SumSeq([k \in 1..n |-> FrameSignals(v.profile, frames[k]).hf]),
         faces |-> SumSeq([k \in 1..n |-> count_faces(v, frames[k])])]

analyze_video_file(v) ==
    IF Fails(v)
    THEN Result("inconclusive", 0, <<ErrorItem>>)
    ELSE LET sig == VideoSignals(v)
             n == sig.n
             lapSum == sig.lapSum
             hfSum == sig.hfSum
             faces == sig.faces
             lapAvg == IF n = 0 THEN 0 ELSE RoundDiv(lapSum, n)
             hfAvg == IF n = 0 THEN 0 ELSE RoundDiv(hfSum, n)
             ev == << Ev("Video ELA avg", Fmt2(1)),
                      Ev("Video HighFreq avg", Fmt2(hfAvg)),
                      Ev("Video Laplacian avg", Fmt1(lapAvg)),
                      Ev("Faces (sum)", FmtInt(faces)) >>
             score == VideoScore(lapSum, hfSum, n, faces)
         IN  Result(Verdict(score), Confidence(score), ev)

-----------------------------------------------------------------------------
(* The detector as post_to_detector sees it *)

NoResult == Result("none", 0, <<>>)

\* seen: what the call found when it looked for the cascade file, if it looked
Returned(res) ==
    [kind |-> "returned", why |-> "", leak |-> FALSE, res |-> res, seen |-> "nothing"]
Raised(why, leak) ==
    [kind |-> "raised", why |-> why, leak |-> leak, res |-> NoResult, seen |-> "nothing"]
ReturnedVideo(v) ==
    [Returned(analyze_video_file(v)) EXCEPT !.seen = IF LooksForCascade(v) THEN v.xml ELSE "nothing"]

\* _FACE and the cascade file after a call of the detector
FaceAfter(o) == IF o.seen = "present" THEN "Classifier" ELSE face
HaarAfter(o) == IF o.seen = "nothing" THEN haar ELSE o.seen

\* POST /analyze/image: read the body, decode it, analyze_image_pil
analyze_image(f) ==
    {Raised("read", FALSE)}
    \cup (IF f.content = "image"
          THEN {Returned(analyze_image_pil(sig)) : sig \in ImageSignals}
          ELSE {Raised("decode", FALSE)})

\* POST /analyze/video: a temporary file is created, the body read and written
\* to it, analyze_video_file run and the file removed; when reading the body
\* raises, the file stays (leak)
analyze_video(f) ==
    {Raised("read", TRUE)}
    \cup {ReturnedVideo(v) : v \in VideosOf(f.content)}

\* requests.post, raise_for_status, r.json(): the detector is unreachable, or
\* answers with an error status, or answers with its result
post_to_detector(endpoint, f) ==
    {Raised("unreachable", FALSE)}
    \cup (IF endpoint = "/analyze/image" THEN analyze_image(f) ELSE analyze_video(f))

\* the videos handed to the detector where two requests run at once: one
\* frame, read and analysed, or making an extractor raise
ConcVideos ==
    {v \in VideosOf("video") : v.total = 1 /\ v.bad = 1 /\ v.profile = "sharp"}

ConcOutcome(o) ==
    o.kind = "raised" \/ o \in {ReturnedVideo(v) : v \in ConcVideos}

\* the outcomes of post_to_detector a request draws from: all of them, or the
\* few of ConcOutcome
Outcomes(few, endpoint, f) ==
    IF few THEN {o \in post_to_detector(endpoint, f) : ConcOutcome(o)}
    ELSE post_to_detector(endpoint, f)

\* what the detector leaves on disk for the request
DetectorLeft(d, r, o) ==
    IF o.leak THEN WriteFile(d, r, DetectorTmp, [content |-> "garbage", size |-> 0])
    ELSE d

-----------------------------------------------------------------------------
(* Requests *)

NoOut == [kind |-> "none", verdict |-> "", confidence |-> 0, evidence |-> <<>>]
ErrorOut == [kind |-> "error", verdict |-> "", confidence |-> 0, evidence |-> <<>>]
\* JSONResponse(res)
Response(res) ==
    [kind |-> "response", verdict |-> res.verdict, confidence |-> res.confidence,
     evidence |-> res.evidence]

NoErr == [attempt |-> 0, msg |-> <<>>]
Err(attempt, msg) == [attempt |-> attempt, msg |-> msg]

NoDet == [kind |-> "none", why |-> "", leak |-> FALSE, res |-> NoResult, seen |-> "nothing"]
NoDirect == [raises |-> "no", status |-> 0, ct |-> "", got |-> "untried"]
NoUrl == [stem |-> "", ext |-> ""]

Call(op, path) == [op |-> op, path |-> path]

Source == Ev("Source", <<"Local detector">>)
Unsupported == Ev("File", <<"Unsupported">>)

Endpoint(kind) == IF kind = "image" THEN "/analyze/image" ELSE "/analyze/video"

NoArg == [fn |-> "none"]
NoRet == [fn |-> "none"]

\* no request received yet, the detector freshly started
Idle ==
    /\ pc = [r \in Reqs |-> "idle"]
    /\ route = [r \in Reqs |-> "none"]
    /\ url = [r \in Reqs |-> NoUrl]
    /\ disk = {}
    /\ evidence = [r \in Reqs |-> <<>>]
    /\ cur = [r \in Reqs |-> NoPath]
    /\ last_err = [r \in Reqs |-> NoErr]
    /\ out = [r \in Reqs |-> NoOut]
    /\ calls = [r \in Reqs |-> <<>>]
    /\ raised = [r \in Reqs |-> <<>>]
    /\ sniffs = [r \in Reqs |-> <<>>]
    /\ detres = [r \in Reqs |-> NoDet]
    /\ direct = [r \in Reqs |-> NoDirect]
    /\ thrown = [r \in Reqs |-> NoErr]
    /\ tries = [r \in Reqs |-> <<>>]
    /\ face = "None"
    /\ haar = "unknown"

Init ==
    /\ Idle
    /\ arg = NoArg
    /\ ret = NoRet

-----------------------------------------------------------------------------
(* POST /analyze/upload (backend_api.py) *)

\* evidence + res["evidence"]
UploadMerge(ev, res) == Result(res.verdict, res.confidence, ev \o res.evidence)

\* up to the call of post_to_detector: the temporary file is created, the
\* body read and written to it, the file sniffed
UploadReceiveFrom(r, bodies) ==
    /\ pc[r] = "idle"
    /\ route' = [route EXCEPT ![r] = "upload"]
    /\ \/ \* await file.read() raises: the handler ends before its try block
          /\ disk' = WriteFile(disk, r, UploadTmp, [content |-> "garbage", size |-> 0])
          /\ out' = [out EXCEPT ![r] = ErrorOut]
          /\ pc' = [pc EXCEPT ![r] = "done"]
          /\ UNCHANGED <<evidence, cur, sniffs>>
       \/ \E body \in bodies :
            LET f == FileAt(r, UploadTmp, body)
                media == sniff_media_type(f)
            IN  /\ sniffs' = [sniffs EXCEPT ![r] = Append(@, Call(media, UploadTmp))]
                /\ cur' = [cur EXCEPT ![r] = UploadTmp]
                /\ IF media \in {"image", "video"}
                   THEN /\ evidence' = [evidence EXCEPT ![r] = Append(@, Source)]
                        /\ disk' = WriteFile(disk, r, UploadTmp, body)
                        /\ pc' = [pc EXCEPT ![r] = "upload_post"]
                        /\ UNCHANGED out
                   ELSE /\ out' = [out EXCEPT ![r] =
                                      Response(Result("inconclusive", 0, <<Unsupported>>))]
                        /\ disk' = RemoveFile(WriteFile(disk, r, UploadTmp, body), r, UploadTmp)
                        /\ pc' = [pc EXCEPT ![r] = "done"]
                        /\ UNCHANGED evidence
    /\ UNCHANGED <<url, last_err, calls, raised, detres, direct, thrown, tries, face, haar, arg, ret>>

\* whatever body is uploaded
UploadReceive(r) == UploadReceiveFrom(r, Bodies)

\* post_to_detector, the merge of the evidence, and the finally block
UploadForwardFrom(r, few) ==
    /\ pc[r] = "upload_post"
    /\ LET f == Lookup(disk, r, cur[r])
           endpoint == Endpoint(sniff_media_type(f))
       IN  \E o \in Outcomes(few, endpoint, f) :
             /\ calls' = [calls EXCEPT ![r] = Append(@, Call(endpoint, cur[r]))]
             /\ detres' = [detres EXCEPT ![r] = o]
             /\ face' = FaceAfter(o)
             /\ haar' = HaarAfter(o)
             /\ out' = [out EXCEPT ![r] =
                           IF o.kind = "raised" THEN ErrorOut
                           ELSE Response(UploadMerge(evidence[r], o.res))]
             /\ disk' = RemoveFile(DetectorLeft(disk, r, o), r, UploadTmp)
    /\ pc' = [pc EXCEPT ![r] = "done"]
    /\ UNCHANGED <<route, url, evidence, cur, last_err, raised, sniffs, direct, thrown, tries, arg, ret>>

\* whatever the detector does
UploadForward(r) == UploadForwardFrom(r, FALSE)

-----------------------------------------------------------------------------
(* try_direct_get (backend_api.py) *)

\* the URLs submitted: a path and its extension as written
Urls == { [stem |-> "https://example.com/x", ext |-> "MP4"],
          [stem |-> "https://example.com/watch", ext |-> ""] }

\* str.lower on the extensions in use
Lower(ext) == IF ext = "MP4" THEN "mp4" ELSE ext

MediaExts == {"mp4", "mov", "mkv", "jpg", "jpeg", "png", "webp", "bmp", "gif"}

\* "video" in ct or "image" in ct
DeclaresMedia(ct) == ct \in {"image/jpeg", "video/mp4"}

\* what requests.get does: it raises ("connect"), or answers with a status, a
\* Content-Type and a body, whose streaming may raise midway ("stream")
Answers ==
    {[raises |-> "connect", status |-> 0, ct |-> "", body |-> [content |-> "garbage", size |-> 0]]}
    \cup [raises : {"no", "stream"}, status : {200, 404},
          ct : {"image/jpeg", "video/mp4", "text/html"}, body : Bodies]

\* the status left out of the condition
Accepts_IgnoresStatus(u, a) ==
    DeclaresMedia(a.ct) \/ Lower(u.ext) \in MediaExts

Accepts(u, a) ==
    a.status = 200 /\ (DeclaresMedia(a.ct) \/ Lower(u.ext) \in MediaExts)

\* wrote: tmp_path was opened for writing; returned: tmp_path was returned
try_direct_get(u, a) ==
    IF a.raises = "connect" \/ ~Accepts(u, a)
    THEN [wrote |-> FALSE, returned |-> FALSE, body |-> a.body]
    ELSE IF a.raises = "stream"
    THEN [wrote |-> TRUE, returned |-> FALSE, body |-> [content |-> "garbage", size |-> a.body.size]]
    ELSE [wrote |-> TRUE, returned |-> TRUE, body |-> a.body]

-----------------------------------------------------------------------------
(* POST /analyze/url (backend_api.py) *)

DirectGet == Ev("Fetch", <<"Direct GET">>)
YtdlpDownloaded == Ev("Fetch", <<"yt-dlp downloaded">>)
NoStream == Ev("Fetch", <<"No downloadable video stream">>)
YtdlpError(msg) == Ev("Fetch", <<"yt-dlp error: ">> \o Sanitize(msg))

\* the finally block: os.remove(tmp_path), shutil.rmtree(workdir)
UrlCleanup(d, r) == RmTree(RemoveFile(d, r, MediaBin), r)

\* post_to_detector(...) | {"evidence": res["evidence"]}
DirectMerge(ev, res) == Result(res.verdict, res.confidence, ev)

\* r["evidence"] = res["evidence"] + r.get("evidence", [])
DownloadMerge(ev, res) == Result(res.verdict, res.confidence, ev \o res.evidence)

\* ev["label"].startswith("Video") or ev["label"] == "ELA"
IsSignalLabel(label) ==
    label \in {"Video ELA avg", "Video HighFreq avg", "Video Laplacian avg", "ELA"}

\* the response without the closing Unsupported item
Closing_NoItem(ev) == Response(Result("inconclusive", 0, ev))

\* lines 230-233: the closing Unsupported item and the response
Closing(ev) ==
    LET final == IF \E k \in 1..Len(ev) : IsSignalLabel(ev[k].label)
                 THEN ev ELSE Append(ev, Unsupported)
    IN  Response(Result("inconclusive", 0, final))

\* Path B entered whatever the direct fetch produced
PathAfterDirect_FallsThrough(nonempty, kind) == "ytdlp_primary"

\* where analyze_url goes after try_direct_get: to post_to_detector of Path A
\* when d is a non-empty file sniffed as image or video, else to Path B
PathAfterDirect(nonempty, kind) ==
    IF nonempty /\ kind \in {"image", "video"} THEN "direct_post" ELSE "ytdlp_primary"

\* mkdtemp, try_direct_get, and lines 194-204 up to post_to_detector
UrlFetchFrom(r, urls, answers) ==
    /\ pc[r] = "idle"
    /\ route' = [route EXCEPT ![r] = "url"]
    /\ \E u \in urls, a \in answers :
         LET g == try_direct_get(u, a)
             d0 == WriteFile(disk, r, WorkDir, [content |-> "dir", size |-> 0])
             d1 == IF g.wrote THEN WriteFile(d0, r, MediaBin, g.body) ELSE d0
             nonempty == g.returned /\ g.body.size > 0
             kind == sniff_media_type(FileAt(r, MediaBin, g.body))
         IN  /\ url' = [url EXCEPT ![r] = u]
             /\ disk' = d1
             /\ calls' = [calls EXCEPT ![r] = Append(@, Call("try_direct_get", MediaBin))]
             /\ direct' = [direct EXCEPT ![r] =
                    [raises |-> a.raises, status |-> a.status, ct |-> a.ct,
                     got |-> IF nonempty THEN "file"
                             ELSE IF g.returned THEN "empty" ELSE "none"]]
             /\ pc' = [pc EXCEPT ![r] = PathAfterDirect(nonempty, kind)]
             /\ IF nonempty
                THEN /\ sniffs' = [sniffs EXCEPT ![r] = Append(@, Call(kind, MediaBin))]
                     /\ IF kind \in {"image", "video"}
                        THEN /\ evidence' = [evidence EXCEPT ![r] = <<DirectGet, Source>>]
                             /\ cur' = [cur EXCEPT ![r] = MediaBin]
                        ELSE /\ evidence' = [evidence EXCEPT ![r] = <<DirectGet>>]
                             /\ UNCHANGED cur
                ELSE UNCHANGED <<evidence, cur, sniffs>>
    /\ UNCHANGED <<last_err, out, raised, detres, thrown, tries, face, haar, arg, ret>>

\* whatever URL is submitted and whatever its server answers
UrlFetch(r) == UrlFetchFrom(r, Urls, Answers)

\* Path A: post_to_detector, the response, the finally block
UrlDirectForwardFrom(r, few) ==
    /\ pc[r] = "direct_post"
    /\ LET f == Lookup(disk, r, cur[r])
           endpoint == Endpoint(sniff_media_type(f))
       IN  \E o \in Outcomes(few, endpoint, f) :
             /\ calls' = [calls EXCEPT ![r] = Append(@, Call(endpoint, cur[r]))]
             /\ detres' = [detres EXCEPT ![r] = o]
             /\ face' = FaceAfter(o)
             /\ haar' = HaarAfter(o)
             /\ out' = [out EXCEPT ![r] =
                           IF o.kind = "raised" THEN ErrorOut
                           ELSE Response(DirectMerge(evidence[r], o.res))]
             /\ disk' = UrlCleanup(DetectorLeft(disk, r, o), r)
    /\ pc' = [pc EXCEPT ![r] = "done"]
    /\ UNCHANGED <<route, url, evidence, cur, last_err, raised, sniffs, direct, thrown, tries, arg, ret>>

\* whatever the detector does
UrlDirectForward(r) == UrlDirectForwardFrom(r, FALSE)

-----------------------------------------------------------------------------
(* ytdlp_download and Path B of analyze_url (backend_api.py) *)

\* what one YoutubeDL(...).extract_info / prepare_filename round does: it
\* raises with a message, or it writes a file id.<ext> (or nothing) into the
\* working directory and names the file it expected to write, id.<prep>
Attempts ==
    {[raises |-> TRUE, msg |-> m, wrote |-> FALSE, ext |-> "",
      body |-> [content |-> "garbage", size |-> 0], prep |-> ""] : m \in Msgs}
    \cup [raises : {FALSE}, msg : {<<>>}, wrote : {TRUE},
          ext : {"mp4", "jpg", "unknown_video"}, body : Bodies,
          prep : {"mp4", "webm", "mkv", "jpg", "unknown_video"}]
    \cup {[raises |-> FALSE, msg |-> <<>>, wrote |-> FALSE, ext |-> "",
           body |-> [content |-> "garbage", size |-> 0], prep |-> "mp4"]}

\* (path, path.replace(".webm", ".mp4"), path.replace(".mkv", ".mp4"))
Candidates(prep) ==
    << Downloaded(prep),
       Downloaded(IF prep = "webm" THEN "mp4" ELSE prep),
       Downloaded(IF prep = "mkv" THEN "mp4" ELSE prep) >>

\* the first candidate that os.path.exists, or NoPath
FirstExisting(d, r, prep) ==
    LET c == Candidates(prep)
        hits == {k \in 1..Len(c) : Exists(d, r, c[k])}
    IN  IF hits = {} THEN NoPath
        ELSE c[CHOOSE k \in hits : \A j \in hits : k <= j]

\* the working directory after the attempt
AfterAttempt(d, r, a) ==
    IF a.wrote THEN WriteFile(d, r, Downloaded(a.ext), a.body) ELSE d

\* the exception ytdlp_download raises once both attempts are over
Propagated(first, second) == first

\* the failure leaving the handler as an exception
UrlGiveUp_Raises(r, d, ev) ==
    /\ evidence' = [evidence EXCEPT ![r] = ev]
    /\ out' = [out EXCEPT ![r] = ErrorOut]
    /\ disk' = UrlCleanup(d, r)
    /\ pc' = [pc EXCEPT ![r] = "done"]
    /\ UNCHANGED cur

\* analyze_url once Path B is over without a file handed to the detector:
\* the closing item, the response, and the finally block
UrlGiveUp(r, d, ev) ==
    /\ evidence' = [evidence EXCEPT ![r] = ev]
    /\ out' = [out EXCEPT ![r] = Closing(ev)]
    /\ disk' = UrlCleanup(d, r)
    /\ pc' = [pc EXCEPT ![r] = "done"]
    /\ UNCHANGED cur

\* lines 209-224, ytdlp_download having returned path (NoPath for None)
UrlDownloaded(r, d, path) ==
    IF path # NoPath /\ Exists(d, r, path) /\ Lookup(d, r, path).size > 0
    THEN LET kind == sniff_media_type(Lookup(d, r, path))
             ev == Append(evidence[r], YtdlpDownloaded)
         IN  /\ sniffs' = [sniffs EXCEPT ![r] = Append(@, Call(kind, path))]
             /\ IF kind \in {"image", "video"}
                THEN /\ evidence' = [evidence EXCEPT ![r] = Append(ev, Source)]
                     /\ cur' = [cur EXCEPT ![r] = path]
                     /\ disk' = d
                     /\ pc' = [pc EXCEPT ![r] = "download_post"]
                     /\ UNCHANGED out
                ELSE UrlGiveUp(r, d, Append(ev, Unsupported))
    ELSE /\ UrlGiveUp(r, d, Append(evidence[r], NoStream))
         /\ UNCHANGED sniffs

\* one round as the history keeps it: the format asked for and how it ended
Try(format, a, path) ==
    [format |-> format,
     result |-> IF a.raises THEN "raised"
                ELSE IF path = NoPath THEN "nofile" ELSE "file"]

\* the retry running whatever the first round gave
RetryNeeded_Always(a, path) == TRUE

\* whether control reaches the second try block: the first raised (line 122)
\* or none of its candidates exists (lines 119-121)
RetryNeeded(a, path) == a.raises \/ path = NoPath

\* the first try block of ytdlp_download (the preferred format)
UrlDownloadPrimaryFrom(r, attempts) ==
    /\ pc[r] = "ytdlp_primary"
    /\ calls' = [calls EXCEPT ![r] = Append(@, Call("extract_info", Downloaded("primary")))]
    /\ \E a \in attempts :
         LET d == AfterAttempt(disk, r, a)
             path == FirstExisting(d, r, a.prep)
         IN  /\ tries' = [tries EXCEPT ![r] = Append(@, Try("primary", a, path))]
             /\ IF RetryNeeded(a, path)
                THEN /\ last_err' = [last_err EXCEPT ![r] =
                                        IF a.raises THEN Err(1, a.msg) ELSE @]
                     /\ raised' = [raised EXCEPT ![r] =
                                      IF a.raises THEN Append(@, Err(1, a.msg)) ELSE @]
                     /\ disk' = d
                     /\ pc' = [pc EXCEPT ![r] = "ytdlp_best"]
                     /\ UNCHANGED <<evidence, cur, out, sniffs>>
                ELSE /\ UrlDownloaded(r, d, path)
                     /\ UNCHANGED <<last_err, raised>>
    /\ UNCHANGED <<route, url, detres, direct, thrown, face, haar, arg, ret>>

\* whatever the downloader does
UrlDownloadPrimary(r) == UrlDownloadPrimaryFrom(r, Attempts)

\* the second try block (format "best"), the end of ytdlp_download, and what
\* analyze_url does with its result or its exception
UrlDownloadBestFrom(r, attempts) ==
    /\ pc[r] = "ytdlp_best"
    /\ calls' = [calls EXCEPT ![r] = Append(@, Call("extract_info", Downloaded("best")))]
    /\ \E a \in attempts :
         LET d == AfterAttempt(disk, r, a)
             path == FirstExisting(d, r, a.prep)
             second == IF a.raises THEN Err(2, a.msg) ELSE NoErr
             e == Propagated(last_err[r], second)
         IN  /\ tries' = [tries EXCEPT ![r] = Append(@, Try("best", a, path))]
             /\ raised' = [raised EXCEPT ![r] =
                              IF a.raises THEN Append(@, second) ELSE @]
             /\ IF ~a.raises /\ path # NoPath
                THEN /\ UrlDownloaded(r, d, path)
                     /\ UNCHANGED thrown
                ELSE IF e # NoErr
                THEN /\ thrown' = [thrown EXCEPT ![r] = e]
                     /\ UrlGiveUp(r, d, Append(evidence[r], YtdlpError(e.msg)))
                     /\ UNCHANGED sniffs
                ELSE /\ UrlDownloaded(r, d, NoPath)
                     /\ UNCHANGED thrown
    /\ UNCHANGED <<route, url, last_err, detres, direct, face, haar, arg, ret>>

\* whatever the downloader does
UrlDownloadBest(r) == UrlDownloadBestFrom(r, Attempts)

\* str(e) of the exception post_to_detector raises
DetectorErrorText == <<"detector request failed">>

\* Path B: post_to_detector inside the try block of lines 207-228
UrlDownloadForwardFrom(r, few) ==
    /\ pc[r] = "download_post"
    /\ LET f == Lookup(disk, r, cur[r])
           endpoint == Endpoint(sniff_media_type(f))
       IN  \E o \in Outcomes(few, endpoint, f) :
             /\ calls' = [calls EXCEPT ![r] = Append(@, Call(endpoint, cur[r]))]
             /\ detres' = [detres EXCEPT ![r] = o]
             /\ face' = FaceAfter(o)
             /\ haar' = HaarAfter(o)
             /\ IF o.kind = "raised"
                THEN UrlGiveUp(r, DetectorLeft(disk, r, o),
                               Append(evidence[r], YtdlpError(DetectorErrorText)))
                ELSE /\ out' = [out EXCEPT ![r] =
                                   Response(DownloadMerge(evidence[r], o.res))]
                     /\ disk' = UrlCleanup(DetectorLeft(disk, r, o), r)
                     /\ pc' = [pc EXCEPT ![r] = "done"]
                     /\ UNCHANGED <<evidence, cur>>
    /\ UNCHANGED <<route, url, last_err, raised, sniffs, direct, thrown, tries, arg, ret>>

\* whatever the detector does
UrlDownloadForward(r) == UrlDownloadForwardFrom(r, FALSE)

Next ==
    \E r \in Served :
        \/ UploadReceive(r)
        \/ UploadForward(r)
        \/ UrlFetch(r)
        \/ UrlDirectForward(r)
        \/ UrlDownloadPrimary(r)
        \/ UrlDownloadBest(r)
        \/ UrlDownloadForward(r)

Spec == Init /\ [][Next]_vars

-----------------------------------------------------------------------------
(* Properties *)

Done(r) == pc[r] = "done"
Responded(r) == Done(r) /\ out[r].kind = "response"

Has(ev, item) == \E k \in 1..Len(ev) : ev[k] = item
Count(ev, item) == Cardinality({k \in 1..Len(ev) : ev[k] = item})
Last(q) == q[Len(q)]

IsDownloaderCall(c) == c.op = "extract_info"
IsDetectorCall(c) == c.op \in {"/analyze/image", "/analyze/video"}

\* C1: in every /analyze/url request the direct fetch is attempted before the
\* downloader, the downloader is never invoked in a request whose direct fetch
\* produced a non-empty local file, and a request answered 200 with
\* Content-Type image/jpeg and such a file responds with Fetch: Direct GET
\* without invoking the downloader.
C1_DirectFetchExcludesDownloader ==
    \A r \in Reqs :
        /\ \A k \in 1..Len(calls[r]) :
              IsDownloaderCall(calls[r][k])
                  => \E j \in 1..(k - 1) : calls[r][j].op = "try_direct_get"
        /\ direct[r].got = "file"
              => \A k \in 1..Len(calls[r]) : ~IsDownloaderCall(calls[r][k])
        /\ (Responded(r) /\ direct[r].got = "file" /\ direct[r].status = 200
                /\ direct[r].ct = "image/jpeg")
              => Has(out[r].evidence, DirectGet)

\* C1 as it holds: the direct fetch is attempted before the downloader, the
\* downloader is never invoked in a request whose direct fetch produced a
\* non-empty local file that sniffing classified as image or video, and such a
\* request answered 200 with Content-Type image/jpeg responds with
\* Fetch: Direct GET.
C1_ClassifiedDirectFetchExcludesDownloader ==
    \A r \in Reqs :
        LET classified == /\ direct[r].got = "file"
                          /\ sniffs[r] # <<>>
                          /\ sniffs[r][1].op \in {"image", "video"}
        IN  /\ \A k \in 1..Len(calls[r]) :
                  IsDownloaderCall(calls[r][k])
                      => \E j \in 1..(k - 1) : calls[r][j].op = "try_direct_get"
            /\ classified
                  => \A k \in 1..Len(calls[r]) : ~IsDownloaderCall(calls[r][k])
            /\ (Responded(r) /\ classified /\ direct[r].status = 200
                    /\ direct[r].ct = "image/jpeg")
                  => Has(out[r].evidence, DirectGet)

\* a request answered 200 with image/jpeg and a decodable image has responded
C1_Witness ==
    \E r \in Reqs :
        /\ Responded(r)
        /\ direct[r] = [raises |-> "no", status |-> 200, ct |-> "image/jpeg", got |-> "file"]
        /\ sniffs[r] = <<Call("image", MediaBin)>>
        /\ Len(calls[r]) = 2

\* C11: within one ytdlp_download call the downloader is invoked at most twice,
\* first with the primary format; the relaxed-format retry runs only if the
\* primary round raised or yielded no existing file, then exactly once, and
\* never after the primary round returned a file; the request makes no other
\* downloader call.
C11_AtMostOneRetry ==
    \A r \in Reqs :
        LET n == Len(tries[r])
            downloads == {k \in 1..Len(calls[r]) : IsDownloaderCall(calls[r][k])}
        IN  /\ n <= 2
            /\ Cardinality(downloads) = n
            /\ n >= 1 => tries[r][1].format = "primary"
            /\ n = 2 => /\ tries[r][2].format = "best"
                        /\ tries[r][1].result \in {"raised", "nofile"}
            /\ (Done(r) /\ n >= 1 /\ tries[r][1].result \in {"raised", "nofile"})
                  => n = 2

\* the primary round yielded no file, the retry did, and the request is over
C11_Witness ==
    \E r \in Reqs :
        /\ Done(r)
        /\ Len(tries[r]) = 2
        /\ tries[r][1].result = "nofile"
        /\ tries[r][2].result = "file"

\* C2: on every route that forwards to the detector, the evidence of the
\* response is the acquisition-stage evidence followed by all the evidence
\* items of the analyzer, in their order.
C2_EvidenceIsAcquisitionThenAnalysis ==
    \A r \in Reqs :
        (Responded(r) /\ detres[r].kind = "returned")
            => out[r].evidence = evidence[r] \o detres[r].res.evidence

\* C3: when both the primary-format attempt and the relaxed-format retry of
\* ytdlp_download raise, the error propagated to the caller is the one the
\* second attempt raised.
C3_LastErrorPropagated ==
    \A r \in Reqs :
        (Done(r) /\ Len(raised[r]) = 2)
            => thrown[r] = raised[r][2]

\* C4: when the direct fetch fails and the downloader raises, no Fetch
\* evidence value of the response of analyze_url contains an ESC character.
C4_FetchEvidenceHasNoEscape ==
    \A r \in Reqs :
        (Responded(r) /\ direct[r].got # "file" /\ thrown[r] # NoErr)
            => \A k \in 1..Len(out[r].evidence) :
                  out[r].evidence[k].label = "Fetch"
                      => \A i \in 1..Len(out[r].evidence[k].value) :
                            out[r].evidence[k].value[i] # ESC

\* C5: whenever post_to_detector raises, on every route, the request ends in a
\* hard error and not in a response with a degraded verdict.
C5_DetectorFailureIsHardError ==
    \A r \in Reqs :
        (Done(r) /\ detres[r].kind = "raised") => out[r].kind = "error"

\* C6: after a request handler has terminated, on any exit path, no temporary
\* file or working directory created for that request remains on disk.
C6_NothingLeftOnDisk ==
    \A r \in Reqs :
        Done(r) => \A f \in disk : f.owner # r

C8_AtMostOneUnsupported ==
    \A r \in Reqs :
        Responded(r) => Count(out[r].evidence, Unsupported) <= 1

\* C9: every response that carries a verdict and a confidence, of
\* analyze_upload, analyze_url, analyze_image_pil and analyze_video_file, has
\* a non-empty evidence list.
C9_EvidenceNeverEmpty ==
    \A r \in Reqs :
        /\ out[r].kind = "response" => out[r].evidence # <<>>
        /\ detres[r].kind = "returned" => detres[r].res.evidence # <<>>

\* an analyzer whose extraction failed has answered, and the request responded
C9_Witness ==
    \E r \in Reqs :
        /\ Responded(r)
        /\ detres[r].kind = "returned"
        /\ detres[r].res.evidence = <<ErrorItem>>

IsFailureReason(item) ==
    /\ item.label = "Fetch"
    /\ \/ item = NoStream
       \/ StartsWith(item.value, <<"yt-dlp error: ">>)

\* C10: whenever neither acquisition step of analyze_url produces a non-empty
\* file (the direct fetch raises, is refused or is empty; the downloader raises
\* or yields no file), the request ends in a response, never in an error, with
\* verdict inconclusive, confidence 0.0 and a Fetch item that states the reason.
C10_AcquisitionFailureIsEvidence ==
    \A r \in Reqs :
        (Done(r) /\ route[r] = "url" /\ sniffs[r] = <<>>)
            => /\ out[r].kind = "response"
               /\ out[r].verdict = "inconclusive"
               /\ out[r].confidence = 0
               /\ \E k \in 1..Len(out[r].evidence) : IsFailureReason(out[r].evidence[k])

\* the direct fetch was answered 404 and both downloader attempts raised
C10_Witness ==
    \E r \in Reqs :
        /\ Done(r) /\ route[r] = "url" /\ sniffs[r] = <<>>
        /\ direct[r].status = 404
        /\ Len(raised[r]) = 2

-----------------------------------------------------------------------------
(* Two requests at once: analyze_upload and analyze_url run in the server's
   thread pool; the detector's handlers run one at a time on its event loop *)

VideoBody == [content |-> "video", size |-> 1]

ConcBodies == {VideoBody, [content |-> "garbage", size |-> 1]}

ConcUrls == {[stem |-> "https://example.com/watch", ext |-> ""]}

ConcAnswers ==
    {a \in Answers :
        \/ a.raises = "connect"
        \/ a.raises = "no" /\ a.status = 200 /\ a.ct = "video/mp4" /\ a.body = VideoBody}

ConcAttempts ==
    {a \in Attempts :
        \/ a.raises /\ a.msg = <<>>
        \/ a.wrote /\ a.ext = "mp4" /\ a.prep = "mp4" /\ a.body = VideoBody}

NextConc ==
    \E r \in Reqs :
        \/ UploadReceiveFrom(r, ConcBodies)
        \/ UploadForwardFrom(r, TRUE)
        \/ UrlFetchFrom(r, ConcUrls, ConcAnswers)
        \/ UrlDirectForwardFrom(r, TRUE)
        \/ UrlDownloadPrimaryFrom(r, ConcAttempts)
        \/ UrlDownloadBestFrom(r, ConcAttempts)
        \/ UrlDownloadForwardFrom(r, TRUE)

SpecConc == Init /\ [][NextConc]_vars

-----------------------------------------------------------------------------
(* The detector's functions applied on their own *)

ImageGrid ==
    [ela : {0, 39, 40, 41, 59, 60, 61, 300}, lap : {0, 399, 400, 401},
     hf : {0, 11, 12, 13, 100}, fail : {"none", "ela", "lap", "hf"}]

VideoGrid ==
    {v \in [total : 0..MaxFrameCount, bad : 0..MaxFrameCount, profile : AllProfiles,
            fail : BOOLEAN, xml : {"present", "absent"}] :
        v.bad \in {0, 3, v.total}}

SampleGrid ==
    {a \in [total : 0..MaxFrameCount, bad : 0..MaxFrameCount] : a.bad <= a.total}

InitPure ==
    /\ Idle
    /\ ret = NoRet
    /\ arg \in {[fn |-> "analyze_image_pil", sig |-> sig] : sig \in ImageGrid}
            \cup {[fn |-> "analyze_video_file", v |-> v] : v \in VideoGrid}
            \cup {[fn |-> "sample_frames", total |-> a.total, bad |-> a.bad] : a \in SampleGrid}

Unrequested ==
    UNCHANGED <<pc, route, url, disk, evidence, cur, last_err, out, calls, raised,
                sniffs, detres, direct, thrown, tries, face, haar, arg>>

ApplyImage ==
    /\ arg.fn = "analyze_image_pil" /\ ret = NoRet
    /\ ret' = [fn |-> arg.fn, value |-> analyze_image_pil(arg.sig)]
    /\ Unrequested

ApplyVideo ==
    /\ arg.fn = "analyze_video_file" /\ ret = NoRet
    /\ ret' = [fn |-> arg.fn, value |-> analyze_video_file(arg.v)]
    /\ Unrequested

ApplySample ==
    /\ arg.fn = "sample_frames" /\ ret = NoRet
    /\ ret' = [fn |-> arg.fn, value |-> sample_frames(arg.total, arg.bad, NFrames)]
    /\ Unrequested

NextPure == ApplyImage \/ ApplyVideo \/ ApplySample

SpecPure == InitPure /\ [][NextPure]_vars

ImageDone == arg.fn = "analyze_image_pil" /\ ret # NoRet
VideoDone == arg.fn = "analyze_video_file" /\ ret # NoRet
SampleDone == arg.fn = "sample_frames" /\ ret # NoRet

Labels(ev) == [k \in 1..Len(ev) |-> ev[k].label]

\* the fusion rule for images as the specification words it, in hundredths
RuleScore(sig) ==
    LET raw == 50 + (IF sig.ela >= 60 THEN 20 ELSE IF sig.ela >= 40 THEN 10 ELSE 0)
                  + (IF sig.lap < 400 THEN 10 ELSE 0)
                  + (IF sig.hf < 12 THEN 5 ELSE 0)
    IN  IF raw > 100 THEN 100 ELSE IF raw < 0 THEN 0 ELSE raw

RuleVerdict(score) ==
    IF score > 70 THEN "likelyAI" ELSE IF score < 30 THEN "likelyReal" ELSE "inconclusive"

RuleConfidence(score) == 2 * (IF score >= 50 THEN score - 50 ELSE 50 - score)

\* C13: for every image signal vector of the grid around the cutoffs, the
\* verdict and the confidence analyze_image_pil returns are those of the
\* reference rule: 0.5, +0.20 if ELA >= 0.60 else +0.10 if ELA >= 0.40, +0.10
\* if Laplacian < 40, +0.05 if HighFreq < 0.12, clamped; likelyAI above 0.7,
\* likelyReal below 0.3, else inconclusive; confidence |score - 0.5| * 2.
C13_ImageFusionIsTheRule ==
    (ImageDone /\ arg.sig.fail = "none")
        => /\ ret.value.verdict = RuleVerdict(RuleScore(arg.sig))
           /\ ret.value.confidence = RuleConfidence(RuleScore(arg.sig))

\* an image with ELA at the upper cutoff, sharp and textured: score 0.70, which
\* is not above 0.7
C13_Witness ==
    /\ ImageDone
    /\ arg.sig = [ela |-> 60, lap |-> 400, hf |-> 12, fail |-> "none"]
    /\ ret.value.verdict = "inconclusive"
    /\ ret.value.confidence = 40

\* C14: when extraction succeeds, analyze_image_pil returns a confidence in
\* [0,1], a verdict among likelyAI, likelyReal, inconclusive, and exactly the
\* items ELA, Laplacian, HighFreq in that order; when an extractor fails, no
\* signal item is returned without the Error item.
C14_ImageResultShape ==
    ImageDone
        => /\ arg.sig.fail = "none"
                => /\ ret.value.confidence \in 0..100
                   /\ ret.value.verdict \in {"likelyAI", "likelyReal", "inconclusive"}
                   /\ Labels(ret.value.evidence) = <<"ELA", "Laplacian", "HighFreq">>
           /\ arg.sig.fail # "none"
                => ((\E k \in 1..Len(ret.value.evidence) :
                        ret.value.evidence[k].label \in {"ELA", "Laplacian", "HighFreq"})
                    => Has(ret.value.evidence, ErrorItem))

\* an image at the largest signals of the grid has been analysed
C14_Witness ==
    /\ ImageDone
    /\ arg.sig = [ela |-> 300, lap |-> 0, hf |-> 0, fail |-> "none"]
    /\ ret.value.confidence = 70

\* C15: on an input with no decodable frame analyze_video_file returns the
\* four video items with HighFreq avg 0.00, Laplacian avg 0.0 and Faces 0,
\* and, all three rules firing, verdict likelyAI with confidence 0.6.
C15_ZeroFramesIsLikelyAI ==
    (VideoDone /\ (arg.v.total = 0 \/ arg.v.bad = 0))
        => ret.value =
             Result("likelyAI", 60,
                    << Ev("Video ELA avg", <<"0.01">>),
                       Ev("Video HighFreq avg", <<"0.00">>),
                       Ev("Video Laplacian avg", <<"0.0">>),
                       Ev("Faces (sum)", <<"0">>) >>)

\* a container that announces frames of which the first cannot be read
C15_Witness ==
    /\ VideoDone
    /\ arg.v.total = 5 /\ arg.v.bad = 0 /\ arg.v.fail
    /\ ret.value.verdict = "likelyAI"

Min(a, b) == IF a < b THEN a ELSE b

\* 0, step, 2*step, ... : count indices with step = max(1, total // 8)
Evenly(total, count) ==
    LET step == IF total \div 8 > 1 THEN total \div 8 ELSE 1
    IN  [k \in 1..count |-> (k - 1) * step]

\* C17: for every frame count T and N = 8, when every read succeeds
\* sample_frames returns the indices 0, step, 2*step, ... with
\* step = max(1, T // N), all below T, exactly min(N, T) of them; when a read
\* fails it returns only the frames collected before the failure.
C17_SampleFramesEvenly ==
    SampleDone
        => LET all == Evenly(arg.total, Min(8, arg.total))
           IN  /\ \A k \in 1..Len(ret.value) : ret.value[k] < arg.total
               /\ arg.bad = arg.total => ret.value = all
               /\ arg.bad < arg.total
                    => ret.value = SelectSeq(all, LAMBDA i : i < arg.bad)

\* seventeen frames, all readable: every second frame, eight of them
C17_Witness ==
    /\ SampleDone
    /\ arg.total = 17 /\ arg.bad = 17
    /\ ret.value = <<0, 2, 4, 6, 8, 10, 12, 14>>

\* C19: the fused score of both analyzers is never below the base 0.5, and
\* neither analyze_image_pil nor analyze_video_file returns likelyReal.
C19_NeverLikelyReal ==
    /\ (ImageDone \/ VideoDone) => ret.value.verdict \in {"likelyAI", "inconclusive"}
    /\ ImageDone => ImageScore(arg.sig).c >= BaseScore
    /\ VideoDone =>
          LET sig == VideoSignals(arg.v)
          IN  VideoScore(sig.lapSum, sig.hfSum, sig.n, sig.faces).c >= BaseScore

\* a sharp, textured image without reconstruction error keeps the base score
C19_Witness ==
    /\ ImageDone
    /\ arg.sig = [ela |-> 0, lap |-> 401, hf |-> 100, fail |-> "none"]
    /\ ret.value.verdict = "inconclusive"
    /\ ret.value.confidence = 0

\* C18: media.bin is written, and returned by try_direct_get, only when the
\* status is 200 and the Content-Type declares image or video or the URL ends
\* with an allow-listed extension; on an exception, another status or a
\* non-matching type nothing is returned; after no file or a zero-byte file the
\* detector is never given media.bin and analyze_url is at, or has passed
\* through, the downloader.
C18_DirectFetchAcceptance ==
    \A r \in Reqs :
        (route[r] = "url" /\ pc[r] # "idle")
        => LET d == direct[r]
               matches == \/ d.ct \in {"image/jpeg", "video/mp4"}
                          \/ url[r].ext \in {"MP4", "mp4"}
               rejected == d.raises # "no" \/ d.status # 200 \/ ~matches
           IN  /\ (Exists(disk, r, MediaBin) \/ d.got \in {"file", "empty"})
                    => (d.status = 200 /\ matches)
               /\ rejected => d.got = "none"
               /\ d.got \in {"none", "empty"}
                    => /\ \A k \in 1..Len(calls[r]) : calls[r][k].path # MediaBin
                                \/ calls[r][k].op = "try_direct_get"
                       /\ \/ pc[r] = "ytdlp_primary"
                          \/ \E k \in 1..Len(calls[r]) : IsDownloaderCall(calls[r][k])

\* a 200 answer of a declared type with an empty body, after which the
\* downloader ran and the request was answered
C18_Witness ==
    /\ Done(1)
    /\ direct[1] = [raises |-> "no", status |-> 200, ct |-> "video/mp4", got |-> "empty"]
    /\ \E k \in 1..Len(calls[1]) : IsDownloaderCall(calls[1][k])

\* C20: a response of analyze_url whose analysed file came from the downloader
\* contains Fetch: yt-dlp downloaded and does not contain Fetch: Direct GET,
\* and no response contains more than one Fetch success item.
C20_OneStrategyNamed ==
    \A r \in Reqs :
        (Responded(r) /\ route[r] = "url")
        => LET ev == out[r].evidence
               fromDownloader ==
                   \E k \in 1..Len(calls[r]) :
                       /\ IsDetectorCall(calls[r][k])
                       /\ calls[r][k].path.name = Downloaded("").name
           IN  /\ fromDownloader => (Has(ev, YtdlpDownloaded) /\ ~Has(ev, DirectGet))
               /\ Count(ev, DirectGet) + Count(ev, YtdlpDownloaded) <= 1

\* C16: whatever the interleaving of two requests, the file a request is about
\* to hand to the detector and the working directory it made are still on
\* disk while it runs (no other request has removed them), and the detector
\* answers its next call as a freshly started detector would: the face
\* detector it uses is the one the cascade file gives, whatever handle earlier
\* requests have left, and the answer every request has received is the
\* answer the detector gives now to the same file.
C16_RequestsIndependent ==
    /\ \A r \in Reqs :
          /\ pc[r] \in {"upload_post", "direct_post", "download_post"}
                => Exists(disk, r, cur[r])
          /\ pc[r] \in {"ytdlp_primary", "ytdlp_best", "direct_post", "download_post"}
                => Exists(disk, r, WorkDir)
    /\ \A v \in VideosOf("video") :
          face_detector(v) = IF v.xml = "present" THEN "Classifier" ELSE "None"
    /\ face # "None" => haar = "present"
    /\ \A r \in Reqs :
          detres[r].kind = "returned"
            => detres[r].res \in {analyze_video_file(v) : v \in ConcVideos}

\* request 1 has been answered from a downloaded video, having set the face
\* detector handle, while request 2 is about to post its direct file
C16_Witness ==
    /\ Responded(1) /\ route[1] = "url"
    /\ Has(out[1].evidence, YtdlpDownloaded)
    /\ face = "Classifier"
    /\ pc[2] = "direct_post"

\* C12: the image analyzer never propagates an exception: whenever the
\* detector's /analyze/image route has received the bytes of a request, a
\* failure to decode them or to compute a signal comes back as a result with
\* verdict inconclusive, confidence 0.0 and an Error item.
C12_ImageAnalysisNeverRaises ==
    \A r \in Reqs :
        (/\ calls[r] # <<>>
         /\ Last(calls[r]).op = "/analyze/image"
         /\ detres[r].kind # "none"
         /\ detres[r].why \notin {"unreachable", "read"})
            => /\ detres[r].kind = "returned"
               /\ Has(detres[r].res.evidence, ErrorItem)
                     => /\ detres[r].res.verdict = "inconclusive"
                        /\ detres[r].res.confidence = 0

====
